---- MODULE Spec2Model ----
(***************************************************************************)
(* Model of the online multi-object tracker of centernet-lightning         *)
(* (src/src/models/tracker.py): Tracker, Track and cosine_distance_matrix. *)
(*                                                                         *)
(* Tensors are modelled by what the code reads of them:                   *)
(*   - an embedding is a vector of dimension D = 1 whose single entry is   *)
(*     an exact rational [n, d] (d = 0 stands for NaN); for D = 1 the      *)
(*     norm is the absolute value, so v / v.norm() is exactly +1, -1 or    *)
(*     NaN, as it is in floating point;                                    *)
(*   - a track's embedding also carries its number of dimensions (ndim):   *)
(*     embeddings[idx] of an M x D tensor is 1-D (shape (D,)), while a     *)
(*     caller-built row has shape (1, D); torch.cat(dim=0) stacks rows     *)
(*     only for the latter;                                                *)
(*   - scores and thresholds are integers in tenths (0.1 is 1);            *)
(*   - bounding boxes and labels are opaque values.                        *)
(* Indices are 1-based here and 0-based in the code; track_id keeps the    *)
(* code's value (len(self.tracks) at the time of the append).              *)
(*                                                                         *)
(* A step on an empty list raises at the torch.cat of line 69, so the      *)
(* only non-empty lists a tracker can start from are those its caller      *)
(* puts in the public attribute tracks (action SeedTrack).                 *)
(*                                                                         *)
(* Two pure helpers have specifications of their own, over variables the   *)
(* tracker leaves alone: draw_boxes of utils/image_annotate.py (SpecDraw)  *)
(* and the target-heatmap renderers of losses/utils.py (SpecHeatmap); so   *)
(* has configure_optimizers of models/meta.py (SpecOptim).                 *)
(***************************************************************************)
EXTENDS Integers, Sequences, FiniteSets, TLC

\* Bounds of the model.
MaxDet == 3      \* num_detections the tracker is constructed with
MaxSeed == 2     \* tracks the caller puts in tracker.tracks before the first step
MaxSteps == 2    \* calls of Tracker.step

VARIABLES
    tracks,               \* self.tracks
    device,               \* self.device
    nms_kernel,           \* self.nms_kernel
    num_detections,       \* self.num_detections
    detection_threshold,  \* self.detection_threshold
    next_obj,             \* identity of the next Track object allocated
    nsteps,               \* calls of step so far
    retired,              \* track_ids of Track objects removed from the list
    last,                 \* record of the latest call of step
    arrays,               \* draw_boxes: the numpy arrays alive, by identity
    drawn,                \* draw_boxes: record of the latest call
    rendered,             \* heatmap renderers: record of the latest call
    optim                 \* configure_optimizers: record of the latest call

trackerVars == <<tracks, device, nms_kernel, num_detections, detection_threshold,
                 next_obj, nsteps, retired, last>>

helperVars == <<arrays, drawn, rendered, optim>>

vars == <<trackerVars, helperVars>>

----------------------------------------------------------------------------
\* Exact rationals standing for the floats of the code; d = 0 is NaN.

R(n, d) == [n |-> n, d |-> d]

NaN == R(0, 0)

IsNaN(a) == a.d = 0

Abs(x) == IF x < 0 THEN -x ELSE x

RECURSIVE GCD(_, _)
GCD(a, b) == IF b = 0 THEN a ELSE GCD(b, a % b)

RNorm(n, d) ==
    IF d = 0 THEN NaN
    ELSE LET g == GCD(Abs(n), Abs(d))
             s == IF d < 0 THEN -1 ELSE 1
         IN  R((s * n) \div g, (s * d) \div g)

RAdd(a, b) == IF IsNaN(a) \/ IsNaN(b) THEN NaN ELSE RNorm(a.n * b.d + b.n * a.d, a.d * b.d)

RSub(a, b) == IF IsNaN(a) \/ IsNaN(b) THEN NaN ELSE RNorm(a.n * b.d - b.n * a.d, a.d * b.d)

RMul(a, b) == IF IsNaN(a) \/ IsNaN(b) THEN NaN ELSE RNorm(a.n * b.n, a.d * b.d)

\* a / b as the code uses it: b is the norm of a, so b = 0 only when a = 0 (0/0).
RDiv(a, b) == IF IsNaN(a) \/ IsNaN(b) \/ b.n = 0 THEN NaN ELSE RNorm(a.n * b.d, a.d * b.n)

RAbs(a) == IF IsNaN(a) THEN NaN ELSE R(Abs(a.n), a.d)

ROne == R(1, 1)

----------------------------------------------------------------------------
\* Values the detector and the caller may produce.

Det(b, l, s, e) == [bbox |-> b, label |-> l, score |-> s, embedding |-> e]

\* The decoded detections the model draws from, one record per index of bboxes,
\* labels, scores and embeddings: two boxes, two labels, a score at the configured
\* threshold (1) and one above it, embeddings of either sign and of a norm other
\* than 1. A decoded sequence may hold the same detection several times.
Detections ==
    {Det("boxA", "car", 2, R(-1, 1)),
     Det("boxB", "person", 1, R(2, 1))}

\* What the caller may build a track from before the first step: box, label,
\* embedding value, smoothing_factor.
SeedTracks ==
    {<<"boxA", "car", R(1, 1), R(1, 2)>>,
     <<"boxB", "person", R(-2, 1), R(1, 4)>>}

\* **kwargs of Tracker.step: a function from the keywords given to their values.
NoKwargs == <<>>

\* The keywords step reads: one call overrides the threshold, the device and the
\* NMS kernel, another the number of detections.
KwargsSet ==
    {NoKwargs,
     [detection_threshold |-> 2, device |-> "cuda", nms_kernel |-> 5],
     [num_detections |-> 1]}

\* Reading the configured value whatever the keywords are.
KwGetConfigured(kwargs, key, default) == default

\* kwargs.get(key, default)
KwGet(kwargs, key, default) == IF key \in DOMAIN kwargs THEN kwargs[key] ELSE default

RECURSIVE SeqsOfLen(_, _)
SeqsOfLen(S, n) ==
    IF n = 0 THEN {<<>>}
    ELSE {Append(q, x) : q \in SeqsOfLen(S, n - 1), x \in S}

\* decode_tracking: num_detections detections per image (the top-k of the heatmap).
DecodeTracking(n) == SeqsOfLen(Detections, n)

----------------------------------------------------------------------------
\* Track

TrackInit(obj, track_id, bbox, label, embedding, smoothing_factor) ==
    [obj |-> obj,
     track_id |-> track_id,
     bbox |-> bbox,
     label |-> label,
     embedding |-> embedding,
     smoothing_factor |-> smoothing_factor,
     active |-> TRUE,
     to_delete |-> FALSE]

DefaultSmoothing == R(1, 2)

Max(a, b) == IF a > b THEN a ELSE b

Min(a, b) == IF a < b THEN a ELSE b

\* Track.update with the two weights exchanged.
TrackUpdateSwapped(t, bbox, embedding) ==
    [t EXCEPT
        !.bbox = bbox,
        !.embedding =
            [ndim |-> Max(t.embedding.ndim, embedding.ndim),
             val  |-> RAdd(RMul(t.smoothing_factor, t.embedding.val),
                           RMul(RSub(ROne, t.smoothing_factor), embedding.val))]]

\* Track.update: embedding is the detection's 1-D row; the sum broadcasts to the
\* track's own number of dimensions.
TrackUpdate(t, bbox, embedding) ==
    [t EXCEPT
        !.bbox = bbox,
        !.embedding =
            [ndim |-> Max(t.embedding.ndim, embedding.ndim),
             val  |-> RAdd(RMul(RSub(ROne, t.smoothing_factor), t.embedding.val),
                           RMul(t.smoothing_factor, embedding.val))]]

\* embeddings[idx]: one row of the M x D tensor, a 1-D tensor.
Row(val) == [ndim |-> 1, val |-> val]

----------------------------------------------------------------------------
\* Tracker.step, piece by piece

\* The mask with > in place of >=.
MaskStrict(dets, threshold) == SelectSeq(dets, LAMBDA x : x.score > threshold)

\* x[mask] with mask = scores >= detection_threshold, applied to the four tensors alike.
Mask(dets, threshold) == SelectSeq(dets, LAMBDA x : x.score >= threshold)

\* torch.cat([x.embedding for x in self.tracks], dim=0)
CatEmbeddings(trks) ==
    IF Len(trks) = 0
    THEN [ok |-> FALSE, ndim |-> 0, vals |-> <<>>]
    ELSE IF \E j \in 1..Len(trks) : trks[j].embedding.ndim # trks[1].embedding.ndim
    THEN [ok |-> FALSE, ndim |-> 0, vals |-> <<>>]
    ELSE [ok |-> TRUE,
          ndim |-> trks[1].embedding.ndim,
          vals |-> [j \in 1..Len(trks) |-> trks[j].embedding.val]]

\* cosine_distance_matrix(v1, v2): v1 is M x D (a sequence of M rows); v2 is the
\* result of the cat: K x D when the tracks hold rows of shape (1, D), a 1-D tensor
\* of K * D entries when they hold 1-D embeddings. With a 1-D v2 the norm is that of
\* the whole vector and matmul is a matrix-vector product, defined only for
\* K * D = D, whose result is 1-D (shape (M,)).
CosineDistanceMatrix(v1, v2) ==
    LET M == Len(v1)
        K == Len(v2.vals)
        v1_n == [i \in 1..M |-> RDiv(v1[i], RAbs(v1[i]))]
    IN  IF v2.ndim = 2
        THEN LET v2_n == [j \in 1..K |-> RDiv(v2.vals[j], RAbs(v2.vals[j]))]
             IN  [ok |-> TRUE,
                  shape |-> <<M, K>>,
                  val |-> [i \in 1..M |-> [j \in 1..K |-> RSub(ROne, RMul(v1_n[i], v2_n[j]))]]]
        ELSE IF K = 1
        THEN LET v2_n == RDiv(v2.vals[1], RAbs(v2.vals[1]))
             IN  [ok |-> TRUE,
                  shape |-> <<M>>,
                  val |-> [i \in 1..M |-> <<RSub(ROne, RMul(v1_n[i], v2_n))>>]]
        ELSE [ok |-> FALSE, shape |-> <<>>, val |-> <<>>]

RLeq(a, b) == a.n * b.d <= b.n * a.d

RECURSIVE SumCost(_, _)
SumCost(val, pairs) ==
    IF pairs = {} THEN R(0, 1)
    ELSE LET p == CHOOSE q \in pairs : TRUE
         IN  RAdd(val[p[1]][p[2]], SumCost(val, pairs \ {p}))

Injections(A, B) == {f \in [A -> B] : \A x, y \in A : x # y => f[x] # f[y]}

\* The complete assignments of an M x K cost matrix: every row is assigned when
\* M <= K, every column when M > K.
Assignments(M, K) ==
    IF M <= K
    THEN {{<<i, f[i]>> : i \in 1..M} : f \in Injections(1..M, 1..K)}
    ELSE {{<<g[j], j>> : j \in 1..K} : g \in Injections(1..K, 1..M)}

HasNaN(cost) ==
    \E i \in 1..cost.shape[1] : \E j \in 1..cost.shape[2] : IsNaN(cost.val[i][j])

\* scipy.optimize.linear_sum_assignment raises ValueError when the cost is not a
\* 2-D array or holds NaN.
LinearSumAssignmentRaises(cost) == Len(cost.shape) # 2 \/ HasNaN(cost)

\* A solver followed by a gate on the cost: pairs of cosine distance above 1 are
\* dropped from a cheapest complete assignment.
LinearSumAssignmentGated(cost) ==
    LET priced == {<<a, SumCost(cost.val, a)>> :
                       a \in Assignments(cost.shape[1], cost.shape[2])}
    IN  {{p \in q[1] : RLeq(cost.val[p[1]][p[2]], ROne)} :
            q \in {q \in priced : \A r \in priced : RLeq(q[2], r[2])}}

\* Pairing detection i with track i, whatever the costs.
LinearSumAssignmentDiagonal(cost) ==
    LET n == IF cost.shape[1] < cost.shape[2] THEN cost.shape[1] ELSE cost.shape[2]
    IN  {{<<i, i>> : i \in 1..n}}

\* scipy.optimize.linear_sum_assignment(cost_matrix): a complete assignment of
\* minimum total cost; which one among several of the same cost is the library's
\* choice, so every one of them is a possible result. The result is the set of
\* (row, col) pairs that zip(row_ind, col_ind) runs over.
LinearSumAssignment(cost) ==
    LET priced == {<<a, SumCost(cost.val, a)>> :
                       a \in Assignments(cost.shape[1], cost.shape[2])}
    IN  {p[1] : p \in {q \in priced : \A r \in priced : RLeq(q[2], r[2])}}

\* The update loop also taking the detection's label.
UpdateMatchedRelabel(trks, kept, sol) ==
    [j \in 1..Len(trks) |->
        IF \E p \in sol : p[2] = j
        THEN LET row == (CHOOSE p \in sol : p[2] = j)[1]
             IN  [TrackUpdate(trks[j], kept[row].bbox, Row(kept[row].embedding))
                     EXCEPT !.label = kept[row].label]
        ELSE trks[j]]

\* for row, col in zip(row_ind, col_ind): self.tracks[col].update(bboxes[row], embeddings[row])
UpdateMatched(trks, kept, sol) ==
    [j \in 1..Len(trks) |->
        IF \E p \in sol : p[2] = j
        THEN LET row == (CHOOSE p \in sol : p[2] = j)[1]
             IN  TrackUpdate(trks[j], kept[row].bbox, Row(kept[row].embedding))
        ELSE trks[j]]

Indices(n) == [x \in 1..n |-> x]

\* The comprehension with "in" for "not in".
UnmatchedDetectionsPaired(M, sol) ==
    SelectSeq([x \in 1..M |-> x], LAMBDA x : x \in {p[1] : p \in sol})

\* The comprehension reading row_ind for col_ind.
UnmatchedTracksByRow(K, sol) ==
    SelectSeq([x \in 1..K |-> x], LAMBDA x : x \notin {p[1] : p \in sol})

\* [x for x in range(len(bboxes)) if x not in row_ind]
UnmatchedDetections(M, sol) ==
    SelectSeq(Indices(M), LAMBDA x : x \notin {p[1] : p \in sol})

\* [x for x in range(len(self.tracks)) if x not in col_ind]
UnmatchedTracks(K, sol) ==
    SelectSeq(Indices(K), LAMBDA x : x \notin {p[2] : p \in sol})

\* Numbering the new track from 1: Track(len(self.tracks) + 1, ...)
NewTrackFromOne(trks, obj, det) ==
    TrackInit(obj, Len(trks) + 1, det.bbox, det.label, Row(det.embedding),
              DefaultSmoothing)

\* Track(len(self.tracks), bboxes[idx], labels[idx], embeddings[idx])
NewTrack(trks, obj, det) ==
    TrackInit(obj, Len(trks), det.bbox, det.label, Row(det.embedding), DefaultSmoothing)

\* for idx in unmatched_detections: self.tracks.append(Track(len(self.tracks), ...))
RECURSIVE CreateTracks(_, _, _, _)
CreateTracks(trks, kept, idxs, obj) ==
    IF idxs = <<>> THEN trks
    ELSE CreateTracks(Append(trks, NewTrack(trks, obj, kept[Head(idxs)])),
                      kept, Tail(idxs), obj + 1)

\* for idx in unmatched_tracks: self.tracks[idx].to_delete = True
MarkUnmatched(trks, idxs) ==
    [j \in 1..Len(trks) |->
        IF \E k \in 1..Len(idxs) : idxs[k] = j
        THEN [trks[j] EXCEPT !.to_delete = TRUE]
        ELSE trks[j]]

\* Marking without the purge.
PurgeNothing(trks) == trks

\* self.tracks = [x for x in self.tracks if not x.to_delete]
Purge(trks) == SelectSeq(trks, LAMBDA x : ~x.to_delete)

\* The unmatched-track indices taken over the list after the creation loop.
ApplyAssignmentLateIndex(trks, kept, sol, obj) ==
    LET updated == UpdateMatched(trks, kept, sol)
        created == CreateTracks(updated, kept, UnmatchedDetections(Len(kept), sol), obj)
    IN  Purge(MarkUnmatched(created, UnmatchedTracks(Len(created), sol)))

\* Lines 75-91 of step for one result of the assignment.
ApplyAssignment(trks, kept, sol, obj) ==
    LET updated == UpdateMatched(trks, kept, sol)
        unmatched_detections == UnmatchedDetections(Len(kept), sol)
        unmatched_tracks == UnmatchedTracks(Len(trks), sol)
        created == CreateTracks(updated, kept, unmatched_detections, obj)
    IN  Purge(MarkUnmatched(created, unmatched_tracks))

NoCost == [ok |-> FALSE, shape |-> <<>>, val |-> <<>>]

\* self.tracks when a statement of step raises: the exception leaves step, and no
\* statement before lines 76-91 assigns to self.tracks or to a Track.
TracksOnRaiseCleared(trks) == <<>>

TracksOnRaise(trks) == trks

\* The values the call used (post), the keywords of the call before it (prev), and
\* what the call read and computed.
LastRecord(kwargs, prev, post, pre, dets, thr, kept, cost, pairs, raised) ==
    [called |-> TRUE, kwargs |-> kwargs, prev |-> prev, post |-> post, pre |-> pre,
     dets |-> dets, thr |-> thr, kept |-> kept, cost |-> cost, pairs |-> pairs,
     raised |-> raised]

\* The local variables of lines 45, 51, 52: what model.to and decode_tracking get.
PostProcessing(kwargs, dev, nms, num) ==
    [device |-> KwGet(kwargs, "device", dev),
     nms_kernel |-> KwGet(kwargs, "nms_kernel", nms),
     num_detections |-> KwGet(kwargs, "num_detections", num)]

----------------------------------------------------------------------------
\* The state machine

TrackerConstructed ==
    /\ tracks = <<>>
    /\ device = "cpu"
    /\ nms_kernel = 3
    /\ num_detections = MaxDet
    /\ detection_threshold = 1
    /\ next_obj = 1
    /\ nsteps = 0
    /\ retired = {}
    /\ last = [called |-> FALSE, kwargs |-> NoKwargs, prev |-> NoKwargs,
               post |-> PostProcessing(NoKwargs, "cpu", 3, MaxDet), pre |-> <<>>,
               dets |-> <<>>, thr |-> 0, kept |-> <<>>, cost |-> NoCost, pairs |-> {},
               raised |-> "none"]

NotCalled == [called |-> FALSE]

Init ==
    /\ TrackerConstructed
    /\ arrays = <<>>
    /\ drawn = NotCalled
    /\ rendered = NotCalled
    /\ optim = NotCalled

\* The caller fills the public list before the first step:
\* tracker.tracks.append(Track(len(tracker.tracks), bbox, label, embedding, s)),
\* with embedding a row of shape (1, D).
SeedTrack ==
    /\ nsteps = 0
    /\ Len(tracks) < MaxSeed
    /\ \E t \in SeedTracks :
          tracks' = Append(tracks,
                           TrackInit(next_obj, Len(tracks), t[1], t[2],
                                     [ndim |-> 2, val |-> t[3]], t[4]))
    /\ next_obj' = next_obj + 1
    /\ UNCHANGED <<device, nms_kernel, num_detections, detection_threshold,
                   nsteps, retired, last>>
    /\ UNCHANGED helperVars

\* Tracker.step(img, **kwargs). The detector (lines 44-53) is opaque: it returns
\* the decoded detections or raises. Every statement that can raise (lines 48, 53,
\* 69, 70, 74) precedes the first update of a track.
Step ==
    /\ nsteps < MaxSteps
    /\ nsteps' = nsteps + 1
    /\ \E kwargs \in KwargsSet :
       LET post == PostProcessing(kwargs, device, nms_kernel, num_detections)
           thr == KwGet(kwargs, "detection_threshold", detection_threshold)
       IN  \/ /\ last' = LastRecord(kwargs, last.kwargs, post, tracks, <<>>, thr, <<>>,
                                     NoCost, {}, "DetectorError")
               /\ tracks' = TracksOnRaise(tracks)
               /\ UNCHANGED <<next_obj, retired>>
           \/ \E dets \in DecodeTracking(post.num_detections) :
               LET kept == Mask(dets, thr)
                   current_embeddings == CatEmbeddings(tracks)
                   cost_matrix ==
                       IF current_embeddings.ok
                       THEN CosineDistanceMatrix(
                                [i \in 1..Len(kept) |-> kept[i].embedding],
                                current_embeddings)
                       ELSE NoCost
               IN  IF ~current_embeddings.ok \/ ~cost_matrix.ok
                   THEN /\ last' = LastRecord(kwargs, last.kwargs, post, tracks, dets,
                                              thr, kept, cost_matrix, {}, "RuntimeError")
                        /\ tracks' = TracksOnRaise(tracks)
                        /\ UNCHANGED <<next_obj, retired>>
                   ELSE IF LinearSumAssignmentRaises(cost_matrix)
                   THEN /\ last' = LastRecord(kwargs, last.kwargs, post, tracks, dets,
                                              thr, kept, cost_matrix, {}, "ValueError")
                        /\ tracks' = TracksOnRaise(tracks)
                        /\ UNCHANGED <<next_obj, retired>>
                   ELSE \E sol \in LinearSumAssignment(cost_matrix) :
                        /\ tracks' = ApplyAssignment(tracks, kept, sol, next_obj)
                        /\ next_obj' = next_obj + Len(kept) - Cardinality(sol)
                        /\ retired' = retired \cup
                               {tracks[j].track_id :
                                    j \in (1..Len(tracks)) \ {p[2] : p \in sol}}
                        /\ last' = LastRecord(kwargs, last.kwargs, post, tracks, dets,
                                              thr, kept, cost_matrix, sol, "none")
    /\ UNCHANGED <<device, nms_kernel, num_detections, detection_threshold>>
    /\ UNCHANGED helperVars

Next == SeedTrack \/ Step

Spec == Init /\ [][Next]_vars

----------------------------------------------------------------------------
\* draw_boxes(img, boxes, extra_texts, text_top, color, text_color, inplace)
\* of utils/image_annotate.py. A numpy array is an identity (its position in
\* arrays) and a content; the content is the sequence of cv2 drawing calls applied
\* to the pixels the array began with. Coordinates are floats given in halves
\* (3 stands for 1.5).

MaxBoxes == 2    \* boxes passed to one call of draw_boxes
MaxDraws == 2    \* calls of draw_boxes

box_thickness == 5

text_size == 2

text_thickness == 2

RED == <<255, 0, 0>>

WHITE == <<255, 255, 255>>

\* The default of the parameter inplace in the signature.
InplaceDefault == FALSE

\* Python's round(x) of a float: to the nearest integer, ties to the even one.
Round(h) ==
    LET q == h \div 2
    IN  IF h % 2 = 0 THEN q ELSE IF q % 2 = 0 THEN q ELSE q + 1

RoundBox(box) == [k \in 1..4 |-> Round(box[k])]

Boxes == {<<1, 2, 5, 7>>, <<4, 4, 9, 11>>}

RECURSIVE SeqsUpTo(_, _)
SeqsUpTo(S, n) == IF n = 0 THEN {<<>>} ELSE SeqsOfLen(S, n) \cup SeqsUpTo(S, n - 1)

\* extra_texts: None, or a list of texts that zip pairs with the boxes.
None == [given |-> FALSE, texts |-> <<>>]

ExtraTexts ==
    {None} \cup {[given |-> TRUE, texts |-> t] : t \in SeqsUpTo({"car 0.9"}, MaxBoxes)}

\* cv2.getTextSize(text, font, text_size, text_thickness): ((text_w, text_h), baseline)
GetTextSize(text) == [text_w |-> 12, text_h |-> 8, baseline |-> 3]

Rectangle(pt1, pt2, color, thickness) ==
    [op |-> "rectangle", pt1 |-> pt1, pt2 |-> pt2, color |-> color,
     thickness |-> thickness]

PutText(text, org, color, thickness) ==
    [op |-> "putText", text |-> text, org |-> org, font |-> "FONT_HERSHEY_SIMPLEX",
     scale |-> text_size, color |-> color, thickness |-> thickness]

\* The body of the second loop for one box and its text (lines 69-81).
BoxAndText(b, text, text_top, color, text_color) ==
    LET sz == GetTextSize(text)
        text_pt == IF text_top THEN <<b[1], b[2] + sz.text_h>>
                   ELSE <<b[1], b[4] - sz.baseline>>
        pt1 == IF text_top THEN <<b[1], b[2] + sz.text_h + sz.baseline>>
               ELSE <<b[1], b[4]>>
        pt2 == IF text_top THEN <<b[1] + sz.text_w, b[2]>>
               ELSE <<b[1] + sz.text_w, b[4] - sz.text_h - sz.baseline>>
    IN  <<Rectangle(<<b[1], b[2]>>, <<b[3], b[4]>>, color, box_thickness),
          Rectangle(pt1, pt2, color, -1),     \* thickness = cv2.FILLED
          PutText(text, text_pt, text_color, text_thickness)>>

\* The drawing calls of lines 61-81, in order.
RECURSIVE DrawOps(_, _, _, _, _)
DrawOps(boxes, extra_texts, text_top, color, text_color) ==
    IF extra_texts = None
    THEN [k \in 1..Len(boxes) |->
             LET b == RoundBox(boxes[k])
             IN  Rectangle(<<b[1], b[2]>>, <<b[3], b[4]>>, color, box_thickness)]
    ELSE IF boxes = <<>> \/ extra_texts.texts = <<>> THEN <<>>
    ELSE BoxAndText(RoundBox(Head(boxes)), Head(extra_texts.texts), text_top, color,
                    text_color)
         \o DrawOps(Tail(boxes), [extra_texts EXCEPT !.texts = Tail(@)], text_top,
                    color, text_color)

\* The caller holds one image, on which nothing is drawn yet.
InitDraw ==
    /\ TrackerConstructed
    /\ arrays = <<<<>>>>
    /\ drawn = [called |-> FALSE, n |-> 0]
    /\ rendered = NotCalled
    /\ optim = NotCalled

\* draw_boxes(arrays[img], boxes, extra_texts, text_top, **kwargs) with the default
\* colours; kwargs holds inplace when the caller passes it.
DrawBoxes ==
    /\ drawn.n < MaxDraws
    /\ \E img \in 1..Len(arrays), boxes \in SeqsUpTo(Boxes, MaxBoxes),
          extra_texts \in ExtraTexts, text_top \in BOOLEAN,
          kwargs \in {NoKwargs, [inplace |-> TRUE], [inplace |-> FALSE]} :
          LET inplace == KwGet(kwargs, "inplace", InplaceDefault)
              target == IF inplace THEN img ELSE Len(arrays) + 1
              copied == IF inplace THEN arrays ELSE Append(arrays, arrays[img])
              ops == DrawOps(boxes, extra_texts, text_top, RED, WHITE)
          IN  /\ arrays' = [copied EXCEPT ![target] = @ \o ops]
              /\ drawn' = [called |-> TRUE, n |-> drawn.n + 1, img |-> img,
                           before |-> arrays[img], kwargs |-> kwargs, ops |-> ops,
                           returned |-> target]
    /\ UNCHANGED <<trackerVars, rendered, optim>>

NextDraw == DrawBoxes

SpecDraw == InitDraw /\ [][NextDraw]_vars

----------------------------------------------------------------------------
\* render_target_heatmap_ttfnet and render_target_heatmap_cornernet of
\* losses/utils.py. A heatmap is a function from (b, c, row, col), 0-based as in
\* the code, to a float32 value; the values written are exp(-q) for an exact
\* rational q >= 0, so a value is either 0 or the q of its exponent, and the
\* larger value has the smaller q. eps = 1e-8 is dropped from 2 * var + eps when
\* var > 0 and decides the quotient when var = 0.

MaxDim == 3      \* largest height and width of a heatmap (the smallest is 2)
MaxObj == 2      \* detections in a batch: 1 image x 2 detections or 2 images x 1
MaxSize == 1     \* largest box size (ttfnet) and Gaussian radius (cornernet)
NumClasses == 2  \* channels of a heatmap

alpha == 54      \* in hundredths

\* exp(-q) is 0 in float32 for q above this
ExpUnderflow == 104

HZero == [zero |-> TRUE, q |-> R(0, 1)]

HExp(q) == [zero |-> FALSE, q |-> q]

HOne == HExp(R(0, 1))

\* torch.exp(-q) in float32
Exp32(q) == IF q.n > ExpUnderflow * q.d THEN HZero ELSE HExp(q)

\* torch.maximum of two values
HMax(a, b) ==
    IF a.zero THEN b ELSE IF b.zero THEN a ELSE IF RLeq(a.q, b.q) THEN a ELSE b

\* A detection of one image: centre (x, y), box size (box_w = box_h for ttfnet;
\* for cornernet the radius that cornernet_gaussian_radius gives the box, taken
\* as an input), label and mask entry.
HeatDets ==
    [x : 0..(MaxDim - 1), y : 0..(MaxDim - 1), size : 0..MaxSize,
     label : 0..(NumClasses - 1), mask : {0, 1}]

\* bboxes, labels and mask of shape N x num_detections: one sequence per image.
HeatBatches ==
    {<<d>> : d \in SeqsOfLen(HeatDets, MaxObj)}
        \cup {[k \in 1..MaxObj |-> <<d[k]>>] : d \in SeqsOfLen(HeatDets, MaxObj)}

\* heatmap_shape for a batch of n images
HeatShapes(n) == {<<n, NumClasses, a, b>> : a \in 2..MaxDim, b \in 2..MaxDim}

Cells(shape) ==
    (0..(shape[1] - 1)) \X (0..(shape[2] - 1)) \X (0..(shape[3] - 1))
        \X (0..(shape[4] - 1))

\* torch.zeros(heatmap_shape)
Zeros(shape) == [cell \in Cells(shape) |-> HZero]

\* The (b, i) loop nest: the detections in the order the loops visit them.
RECURSIVE Visits(_, _)
Visits(dets, b) ==
    IF b > Len(dets) THEN <<>>
    ELSE [i \in 1..Len(dets[b]) |-> [b |-> b - 1, det |-> dets[b][i]]]
         \o Visits(dets, b + 1)

\* Python's a[start:stop] on a dimension of n entries: first index and length.
SliceIndex(i, n) == IF i < 0 THEN Max(i + n, 0) ELSE Min(i, n)

Slice(start, stop, n) ==
    LET lo == SliceIndex(start, n)
        hi == SliceIndex(stop, n)
    IN  [lo |-> lo, len |-> Max(hi - lo, 0)]

\* Broadcasting one dimension of torch.maximum(out_view, other, out=out_view):
\* equal sizes go elementwise, a size-1 other is repeated, a size-1 out_view would
\* have to be resized (deprecated, the outcome depends on the build), anything
\* else raises.
Broadcast(hn, gn) ==
    IF hn = gn THEN "same"
    ELSE IF gn = 1 THEN "stretch"
    ELSE IF hn = 1 THEN "resize"
    ELSE "error"

BroadcastIndex(k, gn) == IF gn = 1 THEN 0 ELSE k

\* torch.maximum(heatmap[b, c, hr, hc], g[gr, gc], out=heatmap[b, c, hr, hc]),
\* with hr, hc, gr, gc slices and g a function of (row, col).
WriteMax(acc, b, c, hr, hc, g, gr, gc) ==
    LET rows == Broadcast(hr.len, gr.len)
        cols == Broadcast(hc.len, gc.len)
    IN  IF rows = "error" \/ cols = "error"
        THEN [acc EXCEPT !.status = "RuntimeError"]
        ELSE IF rows = "resize" \/ cols = "resize"
        THEN [acc EXCEPT !.status = "resized"]
        ELSE [status |-> "ok",
              heatmap |->
                  [cell \in DOMAIN acc.heatmap |->
                      IF /\ cell[1] = b
                         /\ cell[2] = c
                         /\ cell[3] >= hr.lo /\ cell[3] < hr.lo + hr.len
                         /\ cell[4] >= hc.lo /\ cell[4] < hc.lo + hc.len
                      THEN HMax(acc.heatmap[cell],
                                g[<<gr.lo + BroadcastIndex(cell[3] - hr.lo, gr.len),
                                    gc.lo + BroadcastIndex(cell[4] - hc.lo, gc.len)>>])
                      ELSE acc.heatmap[cell]]]

\* ttfnet: delta^2 / (2 * var + eps) with var = (alpha * size / 6)^2
TtfnetTerm(delta, size) ==
    RNorm(delta * delta * 180000, alpha * alpha * size * size)

\* ttfnet: gaussian_kernel[row, col] of lines 46-47, of shape
\* img_height x img_width; with var = 0 the quotient is 0 at delta = 0 and at
\* least 1e8 elsewhere.
TtfnetKernel(shape, det) ==
    [p \in (0..(shape[4] - 1)) \X (0..(shape[3] - 1)) |->
        LET dx == det.x - p[2]
            dy == det.y - p[1]
        IN  IF det.size = 0
            THEN IF dx = 0 /\ dy = 0 THEN HOne ELSE HZero
            ELSE Exp32(RAdd(TtfnetTerm(dx, det.size), TtfnetTerm(dy, det.size)))]

\* ttfnet: the body of the loops (lines 37-48) for one detection
TtfnetOne(shape, b, det, acc) ==
    IF det.mask = 0 THEN acc
    ELSE WriteMax(acc, b, det.label,
                  Slice(0, shape[3], shape[3]), Slice(0, shape[4], shape[4]),
                  TtfnetKernel(shape, det),
                  Slice(0, shape[4], shape[4]), Slice(0, shape[3], shape[3]))

\* cornernet: gaussian[row, col] of lines 105-109 for radius r, rows and columns
\* 0..2r standing for the offsets -r..r; 2 * var = (2r + 1)^2 / 18, and values
\* below finfo.eps (of exponent above 15.94) are set to 0.
CornernetGaussian(r) ==
    [p \in (0..(2 * r)) \X (0..(2 * r)) |->
        LET q == RNorm(18 * ((p[1] - r) * (p[1] - r) + (p[2] - r) * (p[2] - r)),
                       (2 * r + 1) * (2 * r + 1))
        IN  IF q.n * 100 > 1594 * q.d THEN HZero ELSE Exp32(q)]

\* cornernet: left, right, top, bottom of lines 111-114, with img_width and
\* img_height as line 75 unpacks them from heatmap_shape.
CornernetExtent(shape, det) ==
    LET img_width == shape[3]
        img_height == shape[4]
        r == det.size
    IN  [left |-> Min(det.x, r),
         right |-> Min(img_width - det.x, r + 1),
         top |-> Min(det.y, r),
         bottom |-> Min(img_height - det.y, r + 1)]

\* cornernet: the body of the loops (lines 96-118) for one detection
CornernetOne(shape, b, det, acc) ==
    IF det.mask = 0 THEN acc
    ELSE LET e == CornernetExtent(shape, det)
             r == det.size
         IN  WriteMax(acc, b, det.label,
                      Slice(det.y - e.top, det.y + e.bottom, shape[3]),
                      Slice(det.x - e.left, det.x + e.right, shape[4]),
                      CornernetGaussian(r),
                      Slice(r - e.top, r + e.bottom, 2 * r + 1),
                      Slice(r - e.left, r + e.right, 2 * r + 1))

\* The loops: a statement that raises ends the call.
RECURSIVE RenderLoop(_, _, _, _)
RenderLoop(fn, shape, todo, acc) ==
    IF todo = <<>> \/ acc.status # "ok" THEN acc
    ELSE RenderLoop(fn, shape, Tail(todo),
                    IF fn = "ttfnet"
                    THEN TtfnetOne(shape, Head(todo).b, Head(todo).det, acc)
                    ELSE CornernetOne(shape, Head(todo).b, Head(todo).det, acc))

RenderTargetHeatmap(fn, shape, dets) ==
    RenderLoop(fn, shape, Visits(dets, 1), [status |-> "ok", heatmap |-> Zeros(shape)])

\* The arguments of one call, not yet made.
InitHeatmap ==
    /\ TrackerConstructed
    /\ arrays = <<>>
    /\ drawn = NotCalled
    /\ optim = NotCalled
    /\ \E dets \in HeatBatches : \E shape \in HeatShapes(Len(dets)) :
          rendered = [called |-> FALSE, fn |-> "none", shape |-> shape, dets |-> dets,
                      status |-> "none", heatmap |-> Zeros(shape)]

RenderCall(fn) ==
    /\ ~rendered.called
    /\ rendered' =
          LET out == RenderTargetHeatmap(fn, rendered.shape, rendered.dets)
          IN  [rendered EXCEPT !.called = TRUE, !.fn = fn, !.status = out.status,
                               !.heatmap = out.heatmap]
    /\ UNCHANGED <<trackerVars, arrays, drawn, optim>>

RenderTtfnet == RenderCall("ttfnet")

RenderCornernet == RenderCall("cornernet")

NextHeatmap == RenderTtfnet \/ RenderCornernet

SpecHeatmap == InitHeatmap /\ [][NextHeatmap]_vars

----------------------------------------------------------------------------
\* GenericLightning.configure_optimizers of models/meta.py (lines 134-155).
\* self.modules() is a sequence of distinct modules, self first; a module is its
\* class (norm: a BatchNorm, LayerNorm or GroupNorm class), whether it has
\* children, and the Parameter objects registered on it, by identity. One
\* Parameter object may be registered on several modules (tied weights). With
\* jit = True the modules below self are those torch.jit.script returns (line
\* 101), which are RecursiveScriptModule objects and no instances of the norm
\* classes (extra_block is None, so that every module below self is of
\* self.model). Weight decays are in units of 1e-5.

MaxModules == 3  \* modules of self.modules()
MaxParams == 2   \* distinct Parameter objects

weight_decay == 2

ParamIds == 1..MaxParams

OptModules == [norm : BOOLEAN, has_children : BOOLEAN, params : SUBSET ParamIds]

\* The sequences self.modules() can be: self is no norm module, and a module with
\* children is followed by one.
ModuleLists ==
    {ms \in UNION {SeqsOfLen(OptModules, n) : n \in 1..MaxModules} :
        /\ ~ms[1].norm
        /\ \A k \in 1..Len(ms) : ms[k].has_children => k < Len(ms)
        /\ ms[1].has_children = (Len(ms) > 1)}

\* hparams.norm_weight_decay: None or a number
NormWeightDecays == {[none |-> TRUE, val |-> 0], [none |-> FALSE, val |-> 0]}

\* A set of Parameter objects as the list its registration order gives.
RECURSIVE SortedSeq(_)
SortedSeq(S) ==
    IF S = {} THEN <<>>
    ELSE LET m == CHOOSE x \in S : \A y \in S : x <= y
         IN  <<m>> \o SortedSeq(S \ {m})

\* p for p in module.parameters(...) if p.requires_grad
Trainable(m, requires_grad) == SortedSeq({p \in m.params : requires_grad[p]})

\* isinstance(module, norm_classes), k being the module's place in self.modules()
IsNorm(ms, k, jit) == ms[k].norm /\ ~(jit /\ k > 1)

\* The loop of lines 140-146
RECURSIVE SplitParams(_, _, _, _, _)
SplitParams(ms, k, jit, requires_grad, acc) ==
    IF k > Len(ms) THEN acc
    ELSE SplitParams(ms, k + 1, jit, requires_grad,
            IF ms[k].has_children
            THEN [acc EXCEPT !.other_params = @ \o Trainable(ms[k], requires_grad)]
            ELSE IF IsNorm(ms, k, jit)
            THEN [acc EXCEPT !.norm_params = @ \o Trainable(ms[k], requires_grad)]
            ELSE [acc EXCEPT !.other_params = @ \o Trainable(ms[k], requires_grad)])

\* The argument the optimizer gets (lines 137-153): a list of groups, each with
\* its params and its weight_decay; self.parameters() is one group, which the
\* optimizer gives the default weight_decay.
ParameterGroups(ms, jit, requires_grad, norm_weight_decay) ==
    IF ~norm_weight_decay.none
    THEN LET split == SplitParams(ms, 1, jit, requires_grad,
                                  [norm_params |-> <<>>, other_params |-> <<>>])
             groups == <<[params |-> split.norm_params,
                          weight_decay |-> norm_weight_decay.val],
                         [params |-> split.other_params,
                          weight_decay |-> weight_decay]>>
         IN  SelectSeq(groups, LAMBDA g : g.params # <<>>)
    ELSE LET all == SortedSeq(UNION {ms[k].params : k \in 1..Len(ms)})
         IN  IF all = <<>> THEN <<>>
             ELSE <<[params |-> all, weight_decay |-> weight_decay]>>

Range(q) == {q[k] : k \in 1..Len(q)}

\* torch.optim.Optimizer.__init__: an empty parameter list and a parameter in two
\* groups raise ValueError.
OptimizerRaises(groups) ==
    \/ groups = <<>>
    \/ \E a, b \in 1..Len(groups) :
          a # b /\ Range(groups[a].params) \cap Range(groups[b].params) # {}

\* A module about to be configured.
InitOptim ==
    /\ TrackerConstructed
    /\ arrays = <<>>
    /\ drawn = NotCalled
    /\ rendered = NotCalled
    /\ \E ms \in ModuleLists, jit \in BOOLEAN, nwd \in NormWeightDecays,
          requires_grad \in [ParamIds -> BOOLEAN] :
          /\ UNION {ms[k].params : k \in 1..Len(ms)} = ParamIds
          /\ optim = [called |-> FALSE, modules |-> ms, jit |-> jit,
                      requires_grad |-> requires_grad, norm_weight_decay |-> nwd,
                      groups |-> <<>>, raised |-> "none"]

ConfigureOptimizers ==
    /\ ~optim.called
    /\ optim' =
          LET groups == ParameterGroups(optim.modules, optim.jit, optim.requires_grad,
                                        optim.norm_weight_decay)
          IN  [optim EXCEPT !.called = TRUE, !.groups = groups,
                            !.raised = IF OptimizerRaises(groups) THEN "ValueError"
                                       ELSE "none"]
    /\ UNCHANGED <<trackerVars, arrays, drawn, rendered>>

NextOptim == ConfigureOptimizers

SpecOptim == InitOptim /\ [][NextOptim]_vars

----------------------------------------------------------------------------
\* What the claims read of the latest call of step

Called == last.called

\* The call returned: no statement of step raised.
Completed == last.called /\ last.raised = "none"

NumKept == Len(last.kept)

NumPre == Len(last.pre)

PairRows == {p[1] : p \in last.pairs}

PairCols == {p[2] : p \in last.pairs}

\* Track objects that were in the list when the call began.
PreObjs == {last.pre[j].obj : j \in 1..NumPre}

\* Positions of the end list that hold a Track object made during the call.
CreatedIdx == {k \in 1..Len(tracks) : tracks[k].obj \notin PreObjs}

\* A detection's data as a new Track carries it.
Carries(t, det) ==
    /\ t.bbox = det.bbox
    /\ t.label = det.label
    /\ t.embedding.val = det.embedding

OneToOne(P) ==
    \A p, q \in P : (p[1] = q[1] \/ p[2] = q[2]) => p = q

\* C1: a step on an empty track list with n >= 1 retained detections completes
\* and leaves exactly n tracks, one created from each retained detection.
C1_EmptyListStepCreatesTracks ==
    (Called /\ NumPre = 0 /\ NumKept >= 1) =>
        /\ last.raised = "none"
        /\ Len(tracks) = NumKept
        /\ \A i \in 1..NumKept : Carries(tracks[i], last.kept[i])

\* C2: in a step that runs the assignment, the retained detections left unpaired
\* correspond one to one to the Track objects made in the step, each carrying its
\* detection's box, label and embedding and present in the list at the end; a
\* paired detection gets no new track.
C2_UnmatchedDetectionsBecomeTracks ==
    Completed =>
        LET U == (1..NumKept) \ PairRows
        IN  /\ Cardinality(CreatedIdx) = Cardinality(U)
            /\ \E f \in [U -> CreatedIdx] :
                  /\ \A x, y \in U : x # y => f[x] # f[y]
                  /\ \A x \in U : /\ Carries(tracks[f[x]], last.kept[x])
                                  /\ ~tracks[f[x]].to_delete

C2_Witness ==
    /\ Completed
    /\ NumPre >= 1
    /\ PairRows # {}
    /\ (1..NumKept) \ PairRows # {}
    /\ CreatedIdx # {}

\* C3: a track in the list at the start of a step is in the list at its end if and
\* only if the assignment paired it: one unpaired step removes it, a paired track
\* is never removed.
C3_UnmatchedTracksRemoved ==
    Completed =>
        \A j \in 1..NumPre :
            (j \in PairCols) <=> (\E k \in 1..Len(tracks) : tracks[k].obj = last.pre[j].obj)

C3_Witness ==
    /\ Completed
    /\ PairCols # {}
    /\ (1..NumPre) \ PairCols # {}
    /\ Len(tracks) < NumPre

\* C4: a paired track ends the step with the detection's box and with the embedding
\* (1 - s) * old + s * detection, s its smoothing_factor; the equation is stated
\* over the integers, both sides multiplied by the denominators.
C4_PairedTrackUpdated ==
    Completed =>
        \A p \in last.pairs :
            LET old == last.pre[p[2]]
                det == last.kept[p[1]]
                s == old.smoothing_factor
                e == old.embedding.val
                d == det.embedding
            IN  \E k \in 1..Len(tracks) :
                    /\ tracks[k].obj = old.obj
                    /\ tracks[k].bbox = det.bbox
                    /\ tracks[k].embedding.val.d > 0
                    /\ tracks[k].embedding.val.n * (s.d * e.d * d.d)
                         = tracks[k].embedding.val.d
                             * ((s.d - s.n) * e.n * d.d + s.n * d.n * e.d)

C4_Witness ==
    /\ Completed
    /\ \E p \in last.pairs :
          /\ last.pre[p[2]].bbox # last.kept[p[1]].bbox
          /\ last.pre[p[2]].smoothing_factor = R(1, 4)
          /\ last.pre[p[2]].embedding.val # last.kept[p[1]].embedding

\* C5: the pairs used for updating are a one-to-one matching of size min(M, K)
\* whose total cost is at most that of every one-to-one matching of that size.
C5_AssignmentOptimal ==
    Completed =>
        /\ last.pairs \subseteq (1..NumKept) \X (1..NumPre)
        /\ OneToOne(last.pairs)
        /\ Cardinality(last.pairs) = Min(NumKept, NumPre)
        /\ \A P \in SUBSET ((1..NumKept) \X (1..NumPre)) :
              (OneToOne(P) /\ Cardinality(P) = Cardinality(last.pairs)) =>
                  RLeq(SumCost(last.cost.val, last.pairs), SumCost(last.cost.val, P))

C5_Witness ==
    /\ Completed
    /\ NumKept >= 2
    /\ NumPre >= 2
    /\ \E P \in SUBSET ((1..NumKept) \X (1..NumPre)) :
          /\ OneToOne(P)
          /\ Cardinality(P) = Cardinality(last.pairs)
          /\ ~RLeq(SumCost(last.cost.val, P), SumCost(last.cost.val, last.pairs))

\* The number of decoded detections up to index i whose score reaches the threshold.
KeptUpTo(i) == Cardinality({j \in 1..i : last.dets[j].score >= last.thr})

\* C6: the detections that take part in a step are exactly those with
\* score >= threshold, in decoder order and with box, label and embedding kept
\* together; the cost matrix has one row per retained detection, and every track
\* at the end of the step was updated by or created from a retained detection.
C6_ThresholdFilter ==
    Called =>
        /\ NumKept = KeptUpTo(Len(last.dets))
        /\ \A i \in 1..Len(last.dets) :
              last.dets[i].score >= last.thr => last.kept[KeptUpTo(i)] = last.dets[i]
        /\ \A r \in 1..NumKept : last.kept[r].score >= last.thr
        /\ (last.cost.ok /\ Len(last.cost.shape) = 2) => last.cost.shape[1] = NumKept
        /\ Completed =>
              /\ PairRows \subseteq 1..NumKept
              /\ Len(tracks) = NumKept
              /\ \A k \in 1..Len(tracks) :
                    \E r \in 1..NumKept : tracks[k].bbox = last.kept[r].bbox

C6_Witness ==
    /\ Completed
    /\ \E i \in 1..Len(last.dets) : last.dets[i].score < last.thr
    /\ \E i \in 1..Len(last.dets) : last.dets[i].score = last.thr
    /\ Len(tracks) = 1

C8_UniqueTrackIds ==
    \A i, j \in 1..Len(tracks) : i # j => tracks[i].track_id # tracks[j].track_id

\* C9: a Track object made by a step never gets a track_id that belonged to a
\* track deleted in an earlier step.
C9_NoIdReuse ==
    [][\A k \in 1..Len(tracks') :
          tracks'[k].obj >= next_obj => tracks'[k].track_id \notin retired]_vars

\* C10: a step changes nothing but bbox and embedding of a Track object that stays
\* in the list: track_id, label, smoothing_factor, active and to_delete are as
\* before, whatever the label of the detection it was paired with.
C10_UpdateFrame ==
    Completed =>
        \A j \in 1..NumPre : \A k \in 1..Len(tracks) :
            tracks[k].obj = last.pre[j].obj =>
                /\ tracks[k].track_id = last.pre[j].track_id
                /\ tracks[k].label = last.pre[j].label
                /\ tracks[k].smoothing_factor = last.pre[j].smoothing_factor
                /\ tracks[k].active = last.pre[j].active
                /\ tracks[k].to_delete = last.pre[j].to_delete

\* A track paired in two consecutive steps, the second time with a detection of
\* another label.
C10_Witness ==
    /\ Completed
    /\ nsteps = 2
    /\ \E p \in last.pairs :
          /\ last.pre[p[2]].label # last.kept[p[1]].label
          /\ last.pre[p[2]].bbox # last.kept[p[1]].bbox

----------------------------------------------------------------------------
\* The value a call of step used for a post-processing parameter, given the
\* keywords of the call and the value the tracker stores.
UsedFor(key, used, stored) ==
    IF key \in DOMAIN last.kwargs THEN used = last.kwargs[key] ELSE used = stored

\* C11: a post-processing keyword of step (device, nms_kernel, num_detections,
\* detection_threshold) replaces the configured value in that call only: the call
\* uses the keyword's value when it is given and the stored value when it is not,
\* whatever the calls before it were given, and the stored values stay those of the
\* construction.
C11_KwargsOverrideOneStep ==
    /\ device = "cpu"
    /\ nms_kernel = 3
    /\ num_detections = MaxDet
    /\ detection_threshold = 1
    /\ Called =>
          /\ UsedFor("device", last.post.device, device)
          /\ UsedFor("nms_kernel", last.post.nms_kernel, nms_kernel)
          /\ UsedFor("num_detections", last.post.num_detections, num_detections)
          /\ UsedFor("detection_threshold", last.thr, detection_threshold)
          /\ last.raised # "DetectorError" => Len(last.dets) = last.post.num_detections
          /\ \A i \in 1..Len(last.dets) :
                (last.dets[i].score >= last.thr) <=>
                    (\E k \in 1..NumKept : last.kept[k] = last.dets[i])

\* A call without keywords that follows a call with the threshold, device and kernel
\* keywords: it filters with the configured threshold 1 and keeps a detection of
\* score 1 that the call before would have dropped.
C11_Witness ==
    /\ nsteps = 2
    /\ Completed
    /\ last.kwargs = NoKwargs
    /\ DOMAIN last.prev = {"detection_threshold", "device", "nms_kernel"}
    /\ last.prev.detection_threshold # detection_threshold
    /\ last.thr = detection_threshold
    /\ last.post.device = "cpu"
    /\ last.post.nms_kernel = 3
    /\ \E k \in 1..NumKept : last.kept[k].score < last.prev.detection_threshold

----------------------------------------------------------------------------
\* C12: when the detector, the decoding, the cost matrix or the assignment solver
\* raises in a call of step, the exception leaves step (raised records it; nothing
\* of the call runs after it, so no pair is formed) and the track list is exactly
\* the one the call began with, object by object and field by field.
C12_RaiseLeavesTracks ==
    (Called /\ last.raised # "none") =>
        /\ tracks = last.pre
        /\ last.pairs = {}
        /\ CreatedIdx = {}

\* The solver raises on a NaN cost while the list holds tracks and a detection was
\* retained.
C12_Witness ==
    /\ Called
    /\ last.raised = "ValueError"
    /\ NumPre >= 1
    /\ NumKept >= 1
    /\ tracks = last.pre

----------------------------------------------------------------------------
\* C15: a call of step on a non-empty list in which no detection reaches the
\* threshold (and the detector returned) completes, pairs and creates nothing, and
\* leaves the list empty.
C15_NoDetectionEmptiesList ==
    (Called /\ last.raised # "DetectorError" /\ NumPre >= 1 /\ NumKept = 0) =>
        /\ last.raised = "none"
        /\ last.pairs = {}
        /\ tracks = <<>>

----------------------------------------------------------------------------
\* Retained detections the latest call left unpaired.
UnpairedRows == (1..NumKept) \ PairRows

\* How many Track objects the call made before the one at position p (objects are
\* numbered in the order they are made).
CreatedBefore(p) == Cardinality({q \in CreatedIdx : tracks[q].obj < tracks[p].obj})

\* C16: in a call that completes, the track made for the k-th unpaired detection
\* (k = 0, 1, ... in increasing detection index) has track_id = (number of tracks
\* at the start of the call) + k, the length of the list when it is appended.
C16_CreatedTrackId ==
    Completed =>
        \A p \in CreatedIdx :
            /\ tracks[p].track_id = NumPre + CreatedBefore(p)
            /\ \E i \in UnpairedRows :
                  /\ Cardinality({h \in UnpairedRows : h < i}) = CreatedBefore(p)
                  /\ Carries(tracks[p], last.kept[i])

\* Two tracks made in one call on a list of one track, from two different
\* detections: they get the ids 1 and 2 in the order of the detections.
C16_Witness ==
    /\ Completed
    /\ NumPre = 1
    /\ \E p, q \in CreatedIdx :
          /\ tracks[p].obj < tracks[q].obj
          /\ tracks[p].track_id = 1
          /\ tracks[q].track_id = 2
          /\ tracks[p].bbox # tracks[q].bbox
          /\ \E i, h \in UnpairedRows :
                /\ i < h
                /\ Carries(tracks[p], last.kept[i])
                /\ Carries(tracks[q], last.kept[h])

----------------------------------------------------------------------------
\* Objects of the end list that the call began with.
SurvivorObjs == {tracks[k].obj : k \in 1..Len(tracks)} \cap PreObjs

\* C17: after a call of step that completes, the list has as many tracks as the
\* call retained detections: the solver's pairs are as many as the smaller of the
\* two counts whatever they cost, the tracks that survive are exactly the paired
\* ones, and the tracks made are as many as the unpaired detections.
C17_TracksEqualRetained ==
    Completed =>
        /\ Len(tracks) = NumKept
        /\ Cardinality(last.pairs) = Min(NumKept, NumPre)
        /\ SurvivorObjs = {last.pre[j].obj : j \in PairCols}
        /\ Cardinality(SurvivorObjs) = Cardinality(PairRows)
        /\ Cardinality(CreatedIdx) = Cardinality(UnpairedRows)
        /\ Cardinality(SurvivorObjs) + Cardinality(CreatedIdx) = Len(tracks)

\* A completed call that pairs a detection with a track at the largest cosine
\* distance there is (2: opposite embeddings), and the track survives.
C17_Witness ==
    /\ Completed
    /\ NumKept >= 2
    /\ \E p \in last.pairs :
          /\ last.cost.val[p[1]][p[2]] = R(2, 1)
          /\ last.pre[p[2]].obj \in SurvivorObjs

----------------------------------------------------------------------------
\* Position in the start list of the Track object at position k of the end list.
PrePos(k) == CHOOSE j \in 1..NumPre : last.pre[j].obj = tracks[k].obj

SurvivorIdx == (1..Len(tracks)) \ CreatedIdx

\* C18: a call of step that completes keeps the surviving tracks in the order
\* they had, puts the tracks it made after all of them in increasing detection
\* index, and removes only tracks the call began with: every track it made is in
\* the list, and the removed ones are the start tracks at the unpaired columns.
C18_OrderKept ==
    Completed =>
        /\ \A a, b \in SurvivorIdx : a < b => PrePos(a) < PrePos(b)
        /\ \A a \in SurvivorIdx : \A b \in CreatedIdx : a < b
        /\ \A p \in CreatedIdx :
              \E i \in UnpairedRows :
                  /\ Cardinality({h \in UnpairedRows : h < i}) =
                         Cardinality({q \in CreatedIdx : q < p})
                  /\ Carries(tracks[p], last.kept[i])
        /\ Cardinality(CreatedIdx) = Cardinality(UnpairedRows)
        /\ PreObjs \ SurvivorObjs = {last.pre[j].obj : j \in (1..NumPre) \ PairCols}

\* Two tracks survive in their order although the detections were paired with them
\* crosswise, and the track made in the call comes after both.
C18_Witness ==
    /\ Completed
    /\ NumPre = 2
    /\ Len(tracks) = 3
    /\ tracks[1].obj = last.pre[1].obj
    /\ tracks[2].obj = last.pre[2].obj
    /\ CreatedIdx = {3}
    /\ \E p, q \in last.pairs : p[1] < q[1] /\ p[2] > q[2]

----------------------------------------------------------------------------
\* C19: between calls of step (after the construction, after the caller's appends
\* and after every call, completed or not) every track of the list has
\* to_delete = FALSE and active = TRUE.
C19_FlagsBetweenSteps ==
    \A k \in 1..Len(tracks) : ~tracks[k].to_delete /\ tracks[k].active

\* A completed call marked a track of the start list and purged it, and a track
\* remains.
C19_Witness ==
    /\ Completed
    /\ (1..NumPre) \ PairCols # {}
    /\ Len(tracks) >= 1
    /\ Len(tracks) < NumPre
    /\ \A k \in 1..Len(tracks) : ~tracks[k].to_delete /\ tracks[k].active

----------------------------------------------------------------------------
\* C13: draw_boxes called without the inplace argument draws on the array it is
\* given: the array returned is the caller's array, which now holds the drawing.
C13_DrawsOnCallersArray ==
    (drawn.called /\ "inplace" \notin DOMAIN drawn.kwargs) =>
        /\ drawn.returned = drawn.img
        /\ arrays[drawn.img] = drawn.before \o drawn.ops

----------------------------------------------------------------------------
\* What the claims read of the latest call of a heatmap renderer

\* Height and width of the plane, for heatmap_shape = N x C x H x W.
PlaneH == rendered.shape[3]

PlaneW == rendered.shape[4]

\* The masked-in detections of image b with label c.
MaskedIn(b, c) ==
    {d \in {rendered.dets[b + 1][i] : i \in 1..Len(rendered.dets[b + 1])} :
        d.mask # 0 /\ d.label = c}

\* The Gaussian value a detection gives the cell (row, col) of its channel: for
\* ttfnet the kernel centred on (x, y) over the whole plane, for cornernet the
\* Gaussian of radius r centred on (x, y), which reaches the cells within r.
GaussianAt(fn, d, row, col) ==
    LET dx == d.x - col
        dy == d.y - row
    IN  IF fn = "ttfnet"
        THEN IF d.size = 0
             THEN IF dx = 0 /\ dy = 0 THEN HOne ELSE HZero
             ELSE Exp32(RAdd(RNorm(dx * dx * 180000, alpha * alpha * d.size * d.size),
                             RNorm(dy * dy * 180000, alpha * alpha * d.size * d.size)))
        ELSE IF Abs(dx) > d.size \/ Abs(dy) > d.size THEN HZero
        ELSE Exp32(RNorm(18 * (dx * dx + dy * dy), (2 * d.size + 1) * (2 * d.size + 1)))

\* The value is at least every value of the set and is one of them, or 0.
IsMaxOf(v, S) ==
    /\ \A g \in S : HMax(v, g) = v
    /\ v \in S \cup {HZero}

\* C14: a call of either renderer returns a heatmap of the requested shape in
\* which every cell holds the maximum of the Gaussian values of the masked-in
\* detections of its image and channel (0 when there is none, so detections with
\* mask 0 and other channels change nothing), and the cell at the centre of a
\* masked-in detection, in its label channel, holds 1.
C14_HeatmapRendered ==
    rendered.called =>
        /\ rendered.status = "ok"
        /\ DOMAIN rendered.heatmap = Cells(rendered.shape)
        /\ \A cell \in Cells(rendered.shape) :
              /\ IsMaxOf(rendered.heatmap[cell],
                         {GaussianAt(rendered.fn, d, cell[3], cell[4]) :
                              d \in MaskedIn(cell[1], cell[2])})
              /\ (\E d \in MaskedIn(cell[1], cell[2]) : d.y = cell[3] /\ d.x = cell[4])
                     => rendered.heatmap[cell] = HOne

\* The same on square planes.
C14_SquareOnly ==
    PlaneH = PlaneW => C14_HeatmapRendered

\* C20: in render_target_heatmap_cornernet, for a masked-in detection whose centre
\* is in the H x W plane, the heatmap window rows [y - top, y + bottom) and
\* columns [x - left, x + right) lie inside the plane, and the slices taken of the
\* heatmap and of the Gaussian have the same numbers of rows and of columns.
C20_CornernetWindow ==
    (rendered.called /\ rendered.fn = "cornernet") =>
        \A b \in 1..Len(rendered.dets) : \A i \in 1..Len(rendered.dets[b]) :
            LET d == rendered.dets[b][i]
                r == d.size
                e == CornernetExtent(rendered.shape, d)
            IN  (d.mask # 0 /\ 0 <= d.x /\ d.x < PlaneW /\ 0 <= d.y /\ d.y < PlaneH) =>
                    /\ 0 <= d.y - e.top
                    /\ d.y - e.top <= d.y + e.bottom
                    /\ d.y + e.bottom <= PlaneH
                    /\ 0 <= d.x - e.left
                    /\ d.x - e.left <= d.x + e.right
                    /\ d.x + e.right <= PlaneW
                    /\ Slice(d.y - e.top, d.y + e.bottom, PlaneH).len =
                           Slice(r - e.top, r + e.bottom, 2 * r + 1).len
                    /\ Slice(d.x - e.left, d.x + e.right, PlaneW).len =
                           Slice(r - e.left, r + e.right, 2 * r + 1).len

C20_SquareOnly ==
    PlaneH = PlaneW => C20_CornernetWindow

----------------------------------------------------------------------------
\* What the claims read of the latest call of configure_optimizers

\* The groups passed to the optimizer that hold the Parameter p.
GroupsOf(p) == {g \in 1..Len(optim.groups) : p \in Range(optim.groups[g].params)}

\* p is a parameter of a leaf BatchNorm, LayerNorm or GroupNorm module.
OnLeafNorm(p) ==
    \E k \in 1..Len(optim.modules) :
        /\ optim.modules[k].norm
        /\ ~optim.modules[k].has_children
        /\ p \in optim.modules[k].params

\* p is registered on a leaf norm module and on another module as well.
Tied(p) ==
    /\ OnLeafNorm(p)
    /\ \E k \in 1..Len(optim.modules) :
          /\ optim.modules[k].has_children \/ ~optim.modules[k].norm
          /\ p \in optim.modules[k].params

\* C21: with norm_weight_decay not None, every trainable parameter is in exactly
\* one group passed to the optimizer: the group of weight decay norm_weight_decay
\* when it is a parameter of a leaf norm module, the group of weight decay
\* weight_decay otherwise; and no group passed is empty.
C21_OneGroupPerParameter ==
    (optim.called /\ ~optim.norm_weight_decay.none) =>
        /\ \A p \in ParamIds :
              optim.requires_grad[p] =>
                  /\ Cardinality(GroupsOf(p)) = 1
                  /\ \A g \in GroupsOf(p) :
                        optim.groups[g].weight_decay =
                            IF OnLeafNorm(p) THEN optim.norm_weight_decay.val
                            ELSE weight_decay
        /\ \A g \in 1..Len(optim.groups) : optim.groups[g].params # <<>>

\* The same for modules that are not scripted and tie no norm parameter to
\* another module.
C21_EagerUntied ==
    (~optim.jit /\ \A p \in ParamIds : ~Tied(p)) => C21_OneGroupPerParameter

====
